---- MODULE Spec2Model ----
(***************************************************************************)
(* SolatBot (src/bot.py): the per-user state file, the job queue holding   *)
(* the one-shot prayer reminders and the daily Quran reminders, the        *)
(* prayer checklist and the surah/ayat selection conversation.             *)
(*                                                                         *)
(* Text is modelled as a sequence of one-character strings, so that the    *)
(* parsing done by int() and str.split() and the formatting done by        *)
(* f"{hour:02d}" are computed, not assumed.                                *)
(*                                                                         *)
(* Updates are handled one at a time (the Application is built without     *)
(* concurrent_updates); the scheduler runs its jobs on the same event      *)
(* loop, so a job may run, and the clock may advance, while a handler is   *)
(* suspended at an await.  A handler that has changed the file, the job    *)
(* queue or user_data when it awaits its reply is suspended there, its     *)
(* second step being reply_text.  A handler that awaits the answer of a    *)
(* service (get_prayer_times, get_city_name) is suspended at that await,   *)
(* its next step being the arrival of the answer.  A handler that changes  *)
(* nothing and composes its reply in the stretch in which it read the      *)
(* state is one step.  The scheduler wakes up at every instant of the      *)
(* clock and runs the jobs due then, each callback on its own.             *)
(***************************************************************************)
EXTENDS Integers, Sequences, FiniteSets, Bags, TLC

\* ---------------------------------------------------------------- bounds
MaxHour == 1      \* the clock takes the hours 0..MaxHour of a day, minute 0
MaxDay == 1       \* the clock runs over the days 0..MaxDay
MaxAyat == 2      \* ayat numbers typed by a user: 1..MaxAyat
MaxSurah == 2     \* surah buttons pressed by a user: surah_1..surah_MaxSurah
MaxTarget == 1    \* targets typed after /target_quran: -1..MaxTarget

\* ------------------------------------------------------ program constants
PRAYERS == <<"Subuh", "Dzuhur", "Ashar", "Maghrib", "Isya">>
WAITING_AYAT == 1
SURAH_PER_PAGE == 10
CHOOSING == 0
END == -1
LastHour == 23
LastMinute == 59
LastSurah == 114
SurahStop == 115

PrayerSet == {PRAYERS[i] : i \in 1..Len(PRAYERS)}

\* One user, who writes to the bot in the private chat (a private chat has
\* the id of its user) and in the group chat -1.
Users == {1}
Chats == Users \cup {-1}
Pairs == {p \in Chats \X Users : p[1] = p[2] \/ p[1] < 0}

\* ------------------------------------------------------------------ text
Digits == <<"0", "1", "2", "3", "4", "5", "6", "7", "8", "9">>

\* A character outside ASCII, or one that no string of this notation can
\* hold, is written by its code point: "U+06F5" is one character.
\* The decimal digits (category Nd) of the other scripts, a row of ten for
\* each script, as Unicode 14.0.0 lists them: int() reads them all.
OtherDigits == <<
  <<"U+0660", "U+0661", "U+0662", "U+0663", "U+0664",
    "U+0665", "U+0666", "U+0667", "U+0668", "U+0669">>,
  <<"U+06F0", "U+06F1", "U+06F2", "U+06F3", "U+06F4",
    "U+06F5", "U+06F6", "U+06F7", "U+06F8", "U+06F9">>,
  <<"U+07C0", "U+07C1", "U+07C2", "U+07C3", "U+07C4",
    "U+07C5", "U+07C6", "U+07C7", "U+07C8", "U+07C9">>,
  <<"U+0966", "U+0967", "U+0968", "U+0969", "U+096A",
    "U+096B", "U+096C", "U+096D", "U+096E", "U+096F">>,
  <<"U+09E6", "U+09E7", "U+09E8", "U+09E9", "U+09EA",
    "U+09EB", "U+09EC", "U+09ED", "U+09EE", "U+09EF">>,
  <<"U+0A66", "U+0A67", "U+0A68", "U+0A69", "U+0A6A",
    "U+0A6B", "U+0A6C", "U+0A6D", "U+0A6E", "U+0A6F">>,
  <<"U+0AE6", "U+0AE7", "U+0AE8", "U+0AE9", "U+0AEA",
    "U+0AEB", "U+0AEC", "U+0AED", "U+0AEE", "U+0AEF">>,
  <<"U+0B66", "U+0B67", "U+0B68", "U+0B69", "U+0B6A",
    "U+0B6B", "U+0B6C", "U+0B6D", "U+0B6E", "U+0B6F">>,
  <<"U+0BE6", "U+0BE7", "U+0BE8", "U+0BE9", "U+0BEA",
    "U+0BEB", "U+0BEC", "U+0BED", "U+0BEE", "U+0BEF">>,
  <<"U+0C66", "U+0C67", "U+0C68", "U+0C69", "U+0C6A",
    "U+0C6B", "U+0C6C", "U+0C6D", "U+0C6E", "U+0C6F">>,
  <<"U+0CE6", "U+0CE7", "U+0CE8", "U+0CE9", "U+0CEA",
    "U+0CEB", "U+0CEC", "U+0CED", "U+0CEE", "U+0CEF">>,
  <<"U+0D66", "U+0D67", "U+0D68", "U+0D69", "U+0D6A",
    "U+0D6B", "U+0D6C", "U+0D6D", "U+0D6E", "U+0D6F">>,
  <<"U+0DE6", "U+0DE7", "U+0DE8", "U+0DE9", "U+0DEA",
    "U+0DEB", "U+0DEC", "U+0DED", "U+0DEE", "U+0DEF">>,
  <<"U+0E50", "U+0E51", "U+0E52", "U+0E53", "U+0E54",
    "U+0E55", "U+0E56", "U+0E57", "U+0E58", "U+0E59">>,
  <<"U+0ED0", "U+0ED1", "U+0ED2", "U+0ED3", "U+0ED4",
    "U+0ED5", "U+0ED6", "U+0ED7", "U+0ED8", "U+0ED9">>,
  <<"U+0F20", "U+0F21", "U+0F22", "U+0F23", "U+0F24",
    "U+0F25", "U+0F26", "U+0F27", "U+0F28", "U+0F29">>,
  <<"U+1040", "U+1041", "U+1042", "U+1043", "U+1044",
    "U+1045", "U+1046", "U+1047", "U+1048", "U+1049">>,
  <<"U+1090", "U+1091", "U+1092", "U+1093", "U+1094",
    "U+1095", "U+1096", "U+1097", "U+1098", "U+1099">>,
  <<"U+17E0", "U+17E1", "U+17E2", "U+17E3", "U+17E4",
    "U+17E5", "U+17E6", "U+17E7", "U+17E8", "U+17E9">>,
  <<"U+1810", "U+1811", "U+1812", "U+1813", "U+1814",
    "U+1815", "U+1816", "U+1817", "U+1818", "U+1819">>,
  <<"U+1946", "U+1947", "U+1948", "U+1949", "U+194A",
    "U+194B", "U+194C", "U+194D", "U+194E", "U+194F">>,
  <<"U+19D0", "U+19D1", "U+19D2", "U+19D3", "U+19D4",
    "U+19D5", "U+19D6", "U+19D7", "U+19D8", "U+19D9">>,
  <<"U+1A80", "U+1A81", "U+1A82", "U+1A83", "U+1A84",
    "U+1A85", "U+1A86", "U+1A87", "U+1A88", "U+1A89">>,
  <<"U+1A90", "U+1A91", "U+1A92", "U+1A93", "U+1A94",
    "U+1A95", "U+1A96", "U+1A97", "U+1A98", "U+1A99">>,
  <<"U+1B50", "U+1B51", "U+1B52", "U+1B53", "U+1B54",
    "U+1B55", "U+1B56", "U+1B57", "U+1B58", "U+1B59">>,
  <<"U+1BB0", "U+1BB1", "U+1BB2", "U+1BB3", "U+1BB4",
    "U+1BB5", "U+1BB6", "U+1BB7", "U+1BB8", "U+1BB9">>,
  <<"U+1C40", "U+1C41", "U+1C42", "U+1C43", "U+1C44",
    "U+1C45", "U+1C46", "U+1C47", "U+1C48", "U+1C49">>,
  <<"U+1C50", "U+1C51", "U+1C52", "U+1C53", "U+1C54",
    "U+1C55", "U+1C56", "U+1C57", "U+1C58", "U+1C59">>,
  <<"U+A620", "U+A621", "U+A622", "U+A623", "U+A624",
    "U+A625", "U+A626", "U+A627", "U+A628", "U+A629">>,
  <<"U+A8D0", "U+A8D1", "U+A8D2", "U+A8D3", "U+A8D4",
    "U+A8D5", "U+A8D6", "U+A8D7", "U+A8D8", "U+A8D9">>,
  <<"U+A900", "U+A901", "U+A902", "U+A903", "U+A904",
    "U+A905", "U+A906", "U+A907", "U+A908", "U+A909">>,
  <<"U+A9D0", "U+A9D1", "U+A9D2", "U+A9D3", "U+A9D4",
    "U+A9D5", "U+A9D6", "U+A9D7", "U+A9D8", "U+A9D9">>,
  <<"U+A9F0", "U+A9F1", "U+A9F2", "U+A9F3", "U+A9F4",
    "U+A9F5", "U+A9F6", "U+A9F7", "U+A9F8", "U+A9F9">>,
  <<"U+AA50", "U+AA51", "U+AA52", "U+AA53", "U+AA54",
    "U+AA55", "U+AA56", "U+AA57", "U+AA58", "U+AA59">>,
  <<"U+ABF0", "U+ABF1", "U+ABF2", "U+ABF3", "U+ABF4",
    "U+ABF5", "U+ABF6", "U+ABF7", "U+ABF8", "U+ABF9">>,
  <<"U+FF10", "U+FF11", "U+FF12", "U+FF13", "U+FF14",
    "U+FF15", "U+FF16", "U+FF17", "U+FF18", "U+FF19">>,
  <<"U+104A0", "U+104A1", "U+104A2", "U+104A3", "U+104A4",
    "U+104A5", "U+104A6", "U+104A7", "U+104A8", "U+104A9">>,
  <<"U+10D30", "U+10D31", "U+10D32", "U+10D33", "U+10D34",
    "U+10D35", "U+10D36", "U+10D37", "U+10D38", "U+10D39">>,
  <<"U+11066", "U+11067", "U+11068", "U+11069", "U+1106A",
    "U+1106B", "U+1106C", "U+1106D", "U+1106E", "U+1106F">>,
  <<"U+110F0", "U+110F1", "U+110F2", "U+110F3", "U+110F4",
    "U+110F5", "U+110F6", "U+110F7", "U+110F8", "U+110F9">>,
  <<"U+11136", "U+11137", "U+11138", "U+11139", "U+1113A",
    "U+1113B", "U+1113C", "U+1113D", "U+1113E", "U+1113F">>,
  <<"U+111D0", "U+111D1", "U+111D2", "U+111D3", "U+111D4",
    "U+111D5", "U+111D6", "U+111D7", "U+111D8", "U+111D9">>,
  <<"U+112F0", "U+112F1", "U+112F2", "U+112F3", "U+112F4",
    "U+112F5", "U+112F6", "U+112F7", "U+112F8", "U+112F9">>,
  <<"U+11450", "U+11451", "U+11452", "U+11453", "U+11454",
    "U+11455", "U+11456", "U+11457", "U+11458", "U+11459">>,
  <<"U+114D0", "U+114D1", "U+114D2", "U+114D3", "U+114D4",
    "U+114D5", "U+114D6", "U+114D7", "U+114D8", "U+114D9">>,
  <<"U+11650", "U+11651", "U+11652", "U+11653", "U+11654",
    "U+11655", "U+11656", "U+11657", "U+11658", "U+11659">>,
  <<"U+116C0", "U+116C1", "U+116C2", "U+116C3", "U+116C4",
    "U+116C5", "U+116C6", "U+116C7", "U+116C8", "U+116C9">>,
  <<"U+11730", "U+11731", "U+11732", "U+11733", "U+11734",
    "U+11735", "U+11736", "U+11737", "U+11738", "U+11739">>,
  <<"U+118E0", "U+118E1", "U+118E2", "U+118E3", "U+118E4",
    "U+118E5", "U+118E6", "U+118E7", "U+118E8", "U+118E9">>,
  <<"U+11950", "U+11951", "U+11952", "U+11953", "U+11954",
    "U+11955", "U+11956", "U+11957", "U+11958", "U+11959">>,
  <<"U+11C50", "U+11C51", "U+11C52", "U+11C53", "U+11C54",
    "U+11C55", "U+11C56", "U+11C57", "U+11C58", "U+11C59">>,
  <<"U+11D50", "U+11D51", "U+11D52", "U+11D53", "U+11D54",
    "U+11D55", "U+11D56", "U+11D57", "U+11D58", "U+11D59">>,
  <<"U+11DA0", "U+11DA1", "U+11DA2", "U+11DA3", "U+11DA4",
    "U+11DA5", "U+11DA6", "U+11DA7", "U+11DA8", "U+11DA9">>,
  <<"U+16A60", "U+16A61", "U+16A62", "U+16A63", "U+16A64",
    "U+16A65", "U+16A66", "U+16A67", "U+16A68", "U+16A69">>,
  <<"U+16AC0", "U+16AC1", "U+16AC2", "U+16AC3", "U+16AC4",
    "U+16AC5", "U+16AC6", "U+16AC7", "U+16AC8", "U+16AC9">>,
  <<"U+16B50", "U+16B51", "U+16B52", "U+16B53", "U+16B54",
    "U+16B55", "U+16B56", "U+16B57", "U+16B58", "U+16B59">>,
  <<"U+1D7CE", "U+1D7CF", "U+1D7D0", "U+1D7D1", "U+1D7D2",
    "U+1D7D3", "U+1D7D4", "U+1D7D5", "U+1D7D6", "U+1D7D7">>,
  <<"U+1D7D8", "U+1D7D9", "U+1D7DA", "U+1D7DB", "U+1D7DC",
    "U+1D7DD", "U+1D7DE", "U+1D7DF", "U+1D7E0", "U+1D7E1">>,
  <<"U+1D7E2", "U+1D7E3", "U+1D7E4", "U+1D7E5", "U+1D7E6",
    "U+1D7E7", "U+1D7E8", "U+1D7E9", "U+1D7EA", "U+1D7EB">>,
  <<"U+1D7EC", "U+1D7ED", "U+1D7EE", "U+1D7EF", "U+1D7F0",
    "U+1D7F1", "U+1D7F2", "U+1D7F3", "U+1D7F4", "U+1D7F5">>,
  <<"U+1D7F6", "U+1D7F7", "U+1D7F8", "U+1D7F9", "U+1D7FA",
    "U+1D7FB", "U+1D7FC", "U+1D7FD", "U+1D7FE", "U+1D7FF">>,
  <<"U+1E140", "U+1E141", "U+1E142", "U+1E143", "U+1E144",
    "U+1E145", "U+1E146", "U+1E147", "U+1E148", "U+1E149">>,
  <<"U+1E2F0", "U+1E2F1", "U+1E2F2", "U+1E2F3", "U+1E2F4",
    "U+1E2F5", "U+1E2F6", "U+1E2F7", "U+1E2F8", "U+1E2F9">>,
  <<"U+1E950", "U+1E951", "U+1E952", "U+1E953", "U+1E954",
    "U+1E955", "U+1E956", "U+1E957", "U+1E958", "U+1E959">>,
  <<"U+1FBF0", "U+1FBF1", "U+1FBF2", "U+1FBF3", "U+1FBF4",
    "U+1FBF5", "U+1FBF6", "U+1FBF7", "U+1FBF8", "U+1FBF9">>>>

DigitRows == <<Digits>> \o OtherDigits

DigitChars == {DigitRows[r][d] : r \in 1..Len(DigitRows), d \in 1..10}

\* The value of each decimal digit: its place in its row.
DigitValue ==
  [ch \in DigitChars |->
     (CHOOSE d \in 1..10 : \E r \in 1..Len(DigitRows) : DigitRows[r][d] = ch) - 1]

\* The characters of str.isspace, which str.strip() drops.
Whitespace ==
  {" ", "\t", "\n", "\r", "\f", "U+000B", "U+001C", "U+001D", "U+001E",
   "U+001F", "U+0085", "U+00A0", "U+1680", "U+2000", "U+2001", "U+2002",
   "U+2003", "U+2004", "U+2005", "U+2006", "U+2007", "U+2008", "U+2009",
   "U+200A", "U+2028", "U+2029", "U+202F", "U+205F", "U+3000"}

\* The characters that int() ignores around the number: those of str.isspace
\* but the four separators U+001C..U+001F.
IntSpace == Whitespace \ {"U+001C", "U+001D", "U+001E", "U+001F"}

IsDigit(ch) == ch \in DigitChars

DigitVal(ch) == DigitValue[ch]

RECURSIVE DigitsVal(_)
DigitsVal(s) ==
  IF s = <<>> THEN 0
  ELSE 10 * DigitsVal(SubSeq(s, 1, Len(s) - 1)) + DigitVal(s[Len(s)])

\* The characters of chars at both ends of s are dropped.
RECURSIVE StripChars(_, _)
StripChars(s, chars) ==
  IF s = <<>> THEN s
  ELSE IF s[1] \in chars THEN StripChars(Tail(s), chars)
  ELSE IF s[Len(s)] \in chars THEN StripChars(SubSeq(s, 1, Len(s) - 1), chars)
  ELSE s

\* text.strip()
strip(s) == StripChars(s, Whitespace)

ValueError == [ok |-> FALSE, val |-> 0]

\* int(text): white space around the number is ignored; the number is an
\* optional sign and decimal digits of any script, two digits may have one
\* underscore between them; any other text raises ValueError.
int(s) ==
  LET t == StripChars(s, IntSpace)
      signed == t # <<>> /\ t[1] \in {"-", "+"}
      body == IF signed THEN Tail(t) ELSE t
      digits == SelectSeq(body, LAMBDA ch : ch # "_")
  IN IF \/ body = <<>>
        \/ \E i \in 1..Len(body) : ~(IsDigit(body[i]) \/ body[i] = "_")
        \/ body[1] = "_"
        \/ body[Len(body)] = "_"
        \/ \E i \in 1..(Len(body) - 1) : body[i] = "_" /\ body[i + 1] = "_"
     THEN ValueError
     ELSE [ok |-> TRUE,
           val |-> IF t[1] = "-" THEN 0 - DigitsVal(digits)
                   ELSE DigitsVal(digits)]

\* str(n) of an integer.
RECURSIVE NatStr(_)
NatStr(n) == IF n < 10 THEN <<Digits[n + 1]>>
             ELSE NatStr(n \div 10) \o <<Digits[(n % 10) + 1]>>

str(n) == IF n < 0 THEN <<"-">> \o NatStr(0 - n) ELSE NatStr(n)

\* f"{n:02d}"
Format02d(n) == IF 0 <= n /\ n < 10 THEN <<"0">> \o NatStr(n) ELSE str(n)

\* text.split(":")
RECURSIVE split(_)
split(s) ==
  IF \A i \in 1..Len(s) : s[i] # ":" THEN <<s>>
  ELSE LET k == CHOOSE i \in 1..Len(s) :
                  s[i] = ":" /\ \A j \in 1..(i - 1) : s[j] # ":"
       IN <<SubSeq(s, 1, k - 1)>> \o split(SubSeq(s, k + 1, Len(s)))

\* hour, minute = map(int, text.split(":"))
ParseHM(s) ==
  LET parts == split(s)
  IN IF Len(parts) # 2 \/ ~int(parts[1]).ok \/ ~int(parts[2]).ok
     THEN [ok |-> FALSE, hour |-> 0, minute |-> 0]
     ELSE [ok |-> TRUE, hour |-> int(parts[1]).val, minute |-> int(parts[2]).val]

HHMM(h, m) == Format02d(h) \o <<":">> \o Format02d(m)

\* Python's truth value of an integer or of None (0 stands for None here).
Truthy(n) == n # 0

\* s.startswith(prefix); a pattern "^prefix" of a CallbackQueryHandler.
StartsWith(s, prefix) ==
  Len(s) >= Len(prefix) /\ SubSeq(s, 1, Len(prefix)) = prefix

\* s.replace(old, ""): every occurrence of old, from the left, is removed.
RECURSIVE replace(_, _)
replace(s, old) ==
  IF s = <<>> THEN <<>>
  ELSE IF StartsWith(s, old) THEN replace(SubSeq(s, Len(old) + 1, Len(s)), old)
  ELSE <<s[1]>> \o replace(Tail(s), old)

Min(a, b) == IF a <= b THEN a ELSE b

\* --------------------------------------------------------------- inputs
Hours == 0..MaxHour
Garbled == <<"x", "x">>
\* Time strings the prayer-time service may return: the clock's instants, an
\* hour no clock shows, and text that is no time.
TimeStrs == {HHMM(h, 0) : h \in Hours} \cup {HHMM(LastHour + 1, 0), Garbled}
\* Arguments typed after /ingatkan_quran.
ReminderArgs == {str(h) \o <<":">> \o str(0) : h \in Hours}
                  \cup {HHMM(LastHour + 1, 0), Garbled}

\* Arguments typed after /target_quran: numbers, a number written with an
\* underscore and digits of other scripts, and text that is no number.
TargetArgs ==
  {str(n) : n \in -1..MaxTarget} \cup {<<"U+06F0", "_", "U+0661">>, Garbled}
\* Text typed while the bot waits for an ayat number: numbers, a number of
\* another script between white space, and text that is no number.
AyatTexts ==
  {str(n) : n \in 0..MaxAyat} \cup {<<"U+00A0", "U+0967", "\n">>, Garbled}
Surahs == 1..MaxSurah
Days == 0..MaxDay
\* The dates that the server shows while the clock runs over Days.
Dates == -1..(MaxDay + 1)

\* ParseHM, tabulated over the time strings that are given to it.
ParsedTime == [s \in TimeStrs \cup ReminderArgs |-> ParseHM(s)]

VARIABLES
  data,       \* the content of prayer_data.json: str(user id) -> record
  truncated,  \* prayer_data.json was opened for writing and json.dump
              \* raised: its text is cut short and is no JSON document
  jobs,       \* the job queue: a bag of scheduled jobs
  now,        \* the clock: datetime.now(TIMEZONE) as day, hour and minute,
              \* and server, the hours by which the local time of the
              \* server is ahead of it
  conv,       \* ConversationHandler state of each (chat, user)
  user_data,  \* context.user_data of each user
  out,        \* the messages the last step sent
  pending     \* the handler suspended at an await: at the await of its
              \* reply (the reply, the conversation and the state it
              \* returns) or at the await of a service (the handler and
              \* its local variables); NoReply when no handler is suspended

vars == <<data, truncated, jobs, now, conv, user_data, out, pending>>

NoReply == [kind |-> "none"]

\* A handler at the await of its reply; returns is the set holding the state
\* that the handler returns to the conversation of pair, empty when it
\* returns None.
Suspended(reply, pair, returns) ==
  [reply |-> reply, pair |-> pair, returns |-> returns]

\* A handler at the await of the answer of a service (get_prayer_times,
\* get_city_name), with the local variables it uses afterwards.
Awaiting(service, handler, chat_id, user_id, locals) ==
  [await |-> service, handler |-> handler, chat_id |-> chat_id,
   user_id |-> user_id, locals |-> locals]

\* The handler suspended, if any, is handler at the await of service.
At(service, handler) ==
  /\ "await" \in DOMAIN pending
  /\ pending.await = service
  /\ pending.handler = handler

\* Updates are processed one after the other: a handler starts when no
\* handler is suspended.
Idle == pending = NoReply

\* The await of reply_text or edit_message_text completes: the reply is out,
\* the handler returns and the conversation takes the state returned.
reply_text ==
  /\ "reply" \in DOMAIN pending
  /\ out' = {pending.reply}
  /\ conv' = IF pending.returns = {} THEN conv
             ELSE [conv EXCEPT ![pending.pair] = CHOOSE st \in pending.returns : TRUE]
  /\ pending' = NoReply
  /\ UNCHANGED <<data, truncated, jobs, now, user_data>>

\* -------------------------------------------------------------- storage
EmptyDict == <<>>

Put(d, k, v) == (k :> v) @@ d

Get(d, k, default) == IF k \in DOMAIN d THEN d[k] ELSE default

\* load_data() returns the content of the file when json.load can parse it;
\* on a file cut short it raises JSONDecodeError.
Readable == ~truncated

load_data == data

\* get_user(data, user_id): the mapping, with an empty record added for a new id.
get_user(d, user_id) ==
  IF str(user_id) \in DOMAIN d THEN d ELSE Put(d, str(user_id), EmptyDict)

\* user.get("quran", {})
QuranOf(d, user_id) == Get(get_user(d, user_id)[str(user_id)], "quran", EmptyDict)

\* if "quran" not in user: user["quran"] = {};  user["quran"][field] = value
SetQuran(d, user_id, field, value) ==
  LET d1 == get_user(d, user_id)
      user == d1[str(user_id)]
      quran == Get(user, "quran", EmptyDict)
  IN Put(d1, str(user_id), Put(user, "quran", Put(quran, field, value)))

NoLast == [surah |-> 0, ayat |-> 0]

\* ------------------------------------------------------------ job queue
Message(chat_id, kind, items, last, target) ==
  [chat_id |-> chat_id, kind |-> kind, items |-> items,
   surah |-> last.surah, ayat |-> last.ayat, target |-> target]

Reply(chat_id, kind) == Message(chat_id, kind, <<>>, NoLast, 0)

\* An exception that a handler or a job callback lets escape: nothing is sent
\* to the chat, the Application logs it.
Raised(chat_id, exc) == [chat_id |-> chat_id, kind |-> "exception", raised |-> exc]

\* Mutant: the reading jobs of a chat bear the name of its prayer jobs.
PlainName(chat_id) == str(chat_id)

\* f"quran_{chat_id}"
QuranName(chat_id) == <<"q", "u", "r", "a", "n", "_">> \o str(chat_id)

get_jobs_by_name(q, name) == {j \in BagToSet(q) : j.name = name}

\* Mutant: the jobs of the name are not cancelled.
KeepAll(q, name) == q

\* for job in get_jobs_by_name(name): job.schedule_removal()
RemoveByName(q, name) ==
  LET keep == {j \in BagToSet(q) : j.name # name}
  IN [j \in keep |-> q[j]]

\* job_queue.run_once(send_prayer_reminder, when, data, name)
run_once(q, name, prayer, chat_id, user_id, when) ==
  q (+) SetToBag({[name |-> name, callback |-> "send_prayer_reminder",
                   prayer |-> prayer, chat_id |-> chat_id,
                   day |-> when.day, hour |-> when.hour, minute |-> when.minute,
                   user |-> user_id]})

\* job_queue.run_daily(send_quran_reminder, time, data, name); a daily job has
\* no date (day = -1).  user is the user whose request registered the job: the
\* code does not store it, the properties of the reminder refer to it.
run_daily(q, name, chat_id, user_id, hour, minute) ==
  q (+) SetToBag({[name |-> name, callback |-> "send_quran_reminder",
                   prayer |-> "", chat_id |-> chat_id,
                   day |-> -1, hour |-> hour, minute |-> minute,
                   user |-> user_id]})

\* datetime.replace(hour=, minute=) raises ValueError outside 0..23, 0..59.
ValidTime(hour, minute) ==
  0 <= hour /\ hour <= LastHour /\ 0 <= minute /\ minute <= LastMinute

\* Mutant: a time equal to the clock counts as still to come.
LaterOrNow(hour, minute, t) ==
  hour > t.hour \/ (hour = t.hour /\ minute >= t.minute)

\* prayer_time > now, prayer_time being today at hour:minute:00 and now an
\* instant within the minute the clock shows.
Later(hour, minute, t) ==
  hour > t.hour \/ (hour = t.hour /\ minute > t.minute)

\* ------------------------------------------------------ prayer reminders
LookupFailed == <<"LookupFailed">>

\* What get_prayer_times returns: the five named time strings.  The service
\* gives the prayers of a day in the order of the day; a table may hold one
\* entry that is no time of day.
Ordered == {h \in [1..Len(PRAYERS) -> Hours] :
              \A i \in 1..(Len(PRAYERS) - 1) : h[i] <= h[i + 1]}

Index(prayer) == CHOOSE i \in 1..Len(PRAYERS) : PRAYERS[i] = prayer

GoodTables == {[p \in PrayerSet |-> HHMM(h[Index(p)], 0)] : h \in Ordered}

DayTables ==
  GoodTables \cup {[t EXCEPT ![p] = Garbled] : t \in GoodTables, p \in PrayerSet}

BadTables == DayTables \ GoodTables

\* The tables that give all five prayers the same string.
UniformTables == {[p \in PrayerSet |-> s] : s \in TimeStrs}

\* The loop of setup_reminders over times.items(), from the i-th prayer on:
\* a time that does not parse, or that replace() rejects, raises out of the
\* loop, with the jobs registered so far left in the queue.
RECURSIVE ScheduleLoop(_, _, _, _, _, _, _)
ScheduleLoop(i, q, scheduled, times, chat_id, user_id, t) ==
  IF i > Len(PRAYERS) THEN [ok |-> TRUE, jobs |-> q, scheduled |-> scheduled]
  ELSE LET prayer == PRAYERS[i]
           hm == ParsedTime[times[prayer]]
       IN IF ~hm.ok \/ ~ValidTime(hm.hour, hm.minute)
          THEN [ok |-> FALSE, jobs |-> q, scheduled |-> scheduled]
          ELSE IF Later(hm.hour, hm.minute, t)
          THEN ScheduleLoop(i + 1,
                 run_once(q, str(chat_id), prayer, chat_id, user_id,
                          [day |-> t.day, hour |-> hm.hour, minute |-> hm.minute]),
                 Append(scheduled, prayer), times, chat_id, user_id, t)
          ELSE ScheduleLoop(i + 1, q, scheduled, times, chat_id, user_id, t)

\* Cancel the chat's jobs, then register today's.
Reschedule(q, times, chat_id, user_id, t) ==
  ScheduleLoop(1, RemoveByName(q, str(chat_id)), <<>>, times, chat_id, user_id, t)

\* Mutant: the chat's jobs are cancelled before the service is asked.
TrySetupCancelFirst(q, resp, chat_id, user_id, t) ==
  IF resp = LookupFailed
  THEN [ok |-> FALSE, jobs |-> RemoveByName(q, str(chat_id)), scheduled |-> <<>>]
  ELSE Reschedule(q, resp, chat_id, user_id, t)

\* The try block of setup_reminders.  resp is the answer of get_prayer_times:
\* a table, or LookupFailed when the call raises, which is before any job is
\* touched.
TrySetup(q, resp, chat_id, user_id, t) ==
  IF resp = LookupFailed THEN [ok |-> FALSE, jobs |-> q, scheduled |-> <<>>]
  ELSE Reschedule(q, resp, chat_id, user_id, t)

\* The reply of setup_reminders: the except branch, or the list of the
\* reminders registered.
SetupReply(chat_id, r) ==
  IF ~r.ok THEN Reply(chat_id, "Gagal setup pengingat")
  ELSE IF r.scheduled # <<>>
  THEN Message(chat_id, "Pengingat solat aktif", r.scheduled, NoLast, 0)
  ELSE Reply(chat_id, "Semua waktu solat sudah lewat")

\* The queue is as the try block left it.  When get_prayer_times raised, no
\* job was touched and the except branch sends its reply; otherwise the
\* handler is suspended at the reply_text of line 254, or of line 256 when
\* the loop raised.
SetupDone(chat_id, user_id, resp, r) ==
  /\ jobs' = r.jobs
  /\ IF resp = LookupFailed
     THEN /\ out' = {SetupReply(chat_id, r)}
          /\ pending' = NoReply
     ELSE /\ out' = {}
          /\ pending' = Suspended(SetupReply(chat_id, r), <<chat_id, user_id>>, {})

\* /ingatkan, lines 230-236: the file is loaded for the location that goes
\* into the request, and the handler is suspended at the await of
\* get_prayer_times.  Nothing that it read is used after the await.
setup_reminders(chat_id, user_id) ==
  /\ Idle
  /\ Readable
  /\ out' = {}
  /\ pending' = Awaiting("get_prayer_times", "setup_reminders", chat_id, user_id,
                         <<>>)
  /\ UNCHANGED <<data, truncated, jobs, now, conv, user_data>>

\* /ingatkan, lines 236-256: get_prayer_times has answered resp to the
\* handler of the chat.  The clock is read at that moment (line 238), the
\* jobs of the chat are cancelled and the reminders of the times still to
\* come are registered.
setup_reminders_resume(chat_id, user_id, resp) ==
  /\ At("get_prayer_times", "setup_reminders")
  /\ pending.chat_id = chat_id
  /\ pending.user_id = user_id
  /\ SetupDone(chat_id, user_id, resp, TrySetup(jobs, resp, chat_id, user_id, now))
  /\ UNCHANGED <<data, truncated, now, conv, user_data>>

\* send_prayer_reminder
send_prayer_reminder(job) ==
  Message(job.chat_id, "Waktunya solat", <<job.prayer>>, NoLast, 0)

\* ------------------------------------------------------- Quran reminders
\* /target_quran: the target is saved, then the handler is suspended at the
\* reply_text of line 409.
target_quran(chat_id, user_id, args) ==
  /\ Idle
  /\ IF args = <<>>
     THEN /\ out' = {Reply(chat_id, "Format target_quran")}
          /\ UNCHANGED <<data, pending>>
     ELSE IF ~int(args[1]).ok
     THEN /\ out' = {Reply(chat_id, "Target harus berupa angka")}
          /\ UNCHANGED <<data, pending>>
     ELSE /\ Readable
          /\ data' = SetQuran(load_data, user_id, "daily_target", int(args[1]).val)
          /\ out' = {}
          /\ pending' = Suspended(Message(chat_id, "Target harian tersimpan", <<>>,
                                          NoLast, int(args[1]).val),
                                  <<chat_id, user_id>>, {})
  /\ UNCHANGED <<truncated, jobs, now, conv, user_data>>

\* send_quran_reminder: the record is looked up under the chat id of the job.
send_quran_reminder(d, job) ==
  LET chat_id == job.chat_id
      quran_data == QuranOf(d, chat_id)
      last == Get(quran_data, "last_read", NoLast)
      target == Get(quran_data, "daily_target", 0)
  IN Message(chat_id, "Waktunya baca Al-Quran", <<>>, last, target)

\* Mutant: the new job is registered and the old ones are left in the queue.
RegisterOnly(q, chat_id, user_id, hour, minute) ==
  run_daily(q, QuranName(chat_id), chat_id, user_id, hour, minute)

\* ingatkan_quran, lines 449-457: the jobs named quran_<chat_id> are
\* cancelled and the new one is registered; no await stands between the two.
RescheduleReading(q, chat_id, user_id, hour, minute) ==
  run_daily(RemoveByName(q, QuranName(chat_id)),
            QuranName(chat_id), chat_id, user_id, hour, minute)

\* /ingatkan_quran: the time is saved and the timer is registered anew, then
\* the handler is suspended at the reply_text of line 458.
ingatkan_quran(chat_id, user_id, args) ==
  /\ Idle
  /\ IF args = <<>>
     THEN /\ out' = {Reply(chat_id, "Format ingatkan_quran")}
          /\ UNCHANGED <<data, jobs, pending>>
     ELSE LET hm == ParsedTime[args[1]]
          IN IF ~hm.ok \/ ~(0 <= hm.hour /\ hm.hour <= LastHour
                            /\ 0 <= hm.minute /\ hm.minute <= LastMinute)
             THEN /\ out' = {Reply(chat_id, "Format jam salah")}
                  /\ UNCHANGED <<data, jobs, pending>>
             ELSE /\ Readable
                  /\ data' = SetQuran(load_data, user_id, "reminder",
                                      HHMM(hm.hour, hm.minute))
                  /\ jobs' = RescheduleReading(jobs, chat_id, user_id,
                                               hm.hour, hm.minute)
                  /\ out' = {}
                  /\ pending' = Suspended(
                                  Message(chat_id, "Pengingat baca Quran diset",
                                          <<HHMM(hm.hour, hm.minute)>>, NoLast, 0),
                                  <<chat_id, user_id>>, {})
  /\ UNCHANGED <<truncated, now, conv, user_data>>

\* ---------------------------------------------------------------- clock
NextInstant(t) ==
  IF t.hour < MaxHour THEN [t EXCEPT !.hour = t.hour + 1]
  ELSE [t EXCEPT !.day = t.day + 1, !.hour = 0, !.minute = 0]

\* date.today(): the date of the instant t in the time zone of the server,
\* which is the day before or the day after the date in TIMEZONE when the
\* local time of the server is on the other side of midnight.
date_today(t) ==
  IF t.hour + t.server < 0 THEN t.day - 1
  ELSE IF t.hour + t.server > MaxHour THEN t.day + 1
  ELSE t.day

\* datetime.now(TIMEZONE).strftime("%d/%m/%Y %H:%M")
strftime(t) == [day |-> t.day, hour |-> t.hour, minute |-> t.minute]

Due(job, t) ==
  IF job.callback = "send_quran_reminder"
  THEN job.hour = t.hour /\ job.minute = t.minute
  ELSE \/ job.day < t.day
       \/ job.day = t.day /\ ~Later(job.hour, job.minute, t)

\* The exceptions that load_data (open, json.load) and save_data (open,
\* json.dump) raise.
StoreErrors == {"OSError", "JSONDecodeError"}

\* What a call of load_data may end in: "" when it returns the content.  On
\* a file cut short json.load raises JSONDecodeError, unless open is refused
\* first; on any other file open may be refused (OSError).
LoadOutcomes == IF truncated THEN StoreErrors ELSE {"", "OSError"}

\* What the run of a due job sends.  send_quran_reminder calls load_data
\* outside every try block: when that call fails (err names the exception)
\* the callback raises and no reminder is sent.  send_prayer_reminder does
\* not read the file.
RunJob(d, job, err) ==
  IF job.callback = "send_prayer_reminder" THEN send_prayer_reminder(job)
  ELSE IF err = "" THEN send_quran_reminder(d, job)
  ELSE Raised(job.chat_id, err)

\* The clock reaches its next instant and the scheduler runs the jobs due then:
\* a one-shot job leaves the queue, a daily job stays for the next day,
\* whether or not its callback raised.  Each callback calls load_data for
\* itself, so the call of one may fail while that of another returns.
Tick ==
  /\ now.day < MaxDay \/ now.hour < MaxHour
  /\ now' = NextInstant(now)
  /\ LET due == {j \in BagToSet(jobs) : Due(j, now')}
         keep == {j \in BagToSet(jobs) :
                    ~Due(j, now') \/ j.callback = "send_quran_reminder"}
         reading == {j \in due : j.callback = "send_quran_reminder"}
     IN /\ jobs' = [j \in keep |-> jobs[j]]
        /\ \E err \in [reading -> LoadOutcomes] :
             out' = {RunJob(load_data, j, IF j \in reading THEN err[j] ELSE "") :
                       j \in due}
  /\ UNCHANGED <<data, truncated, conv, user_data, pending>>

\* The process stops and main() runs again: the job queue, the conversations
\* and user_data are new, a suspended handler is gone with its reply, and
\* prayer_data.json is the file left on disk.
Restart ==
  /\ jobs' = EmptyBag
  /\ conv' = [p \in Pairs |-> END]
  /\ user_data' = [u \in Users |-> EmptyDict]
  /\ out' = {}
  /\ pending' = NoReply
  /\ UNCHANGED <<data, truncated, now>>

\* ------------------------------------------------------------ checklist
\* A status is a dict whose order the code reads (items()): the sequence of
\* its (key, value) pairs, in the order of insertion or of the file.
\* status.keys(), as a set.
keys(status) == {status[i][1] : i \in 1..Len(status)}

\* status[prayer], for a key the status holds.
item(status, prayer) ==
  status[CHOOSE i \in 1..Len(status) : status[i][1] = prayer][2]

\* The status that holds the five prayers in the order of PRAYERS with the
\* values of f.
DayStatus(f) == [i \in 1..Len(PRAYERS) |-> <<PRAYERS[i], f[PRAYERS[i]]>>]

\* {p: False for p in PRAYERS}
AllFalse == DayStatus([p \in PrayerSet |-> FALSE])

\* Mutant: the entry of the day is created anew at every call.
ResetStatus(d, user_id, today) ==
  LET d1 == get_user(d, user_id)
      user == d1[str(user_id)]
      prayers == Get(user, "prayers", EmptyDict)
  IN Put(d1, str(user_id), Put(user, "prayers", Put(prayers, today, AllFalse)))

\* get_prayer_status(data, user_id, today): the mapping it leaves; the entry
\* it returns is StatusOf.
get_prayer_status(d, user_id, today) ==
  LET d1 == get_user(d, user_id)
      user == d1[str(user_id)]
      user2 == IF "prayers" \in DOMAIN user THEN user
               ELSE Put(user, "prayers", EmptyDict)
      prayers == user2["prayers"]
      prayers2 == IF today \in DOMAIN prayers THEN prayers
                  ELSE Put(prayers, today, AllFalse)
  IN Put(d1, str(user_id), Put(user2, "prayers", prayers2))

StatusOf(d, user_id, today) ==
  get_prayer_status(d, user_id, today)[str(user_id)]["prayers"][today]

\* build_tracker_text: the prayers its text marks done.  It reads
\* prayer_status[prayer] for each prayer of PRAYERS, which is a KeyError for a
\* status that lacks one.
TextRaises(status) == \E p \in PrayerSet : p \notin keys(status)

build_tracker_text(status) == SelectSeq(PRAYERS, LAMBDA p : item(status, p))

\* build_tracker_keyboard: a button toggle_<prayer> for each item of the
\* status, in the order of items(), then the button refresh.
\* PRAYER_EMOJI[prayer] is a KeyError for a key that is none of the five
\* prayers.
KeyboardRaises(status) == \E k \in keys(status) : k \notin PrayerSet

build_tracker_keyboard(status) ==
  [i \in 1..Len(status) |->
     [done |-> status[i][2], callback_data |-> <<"toggle_", status[i][1]>>]]
    \o <<[done |-> FALSE, callback_data |-> <<"refresh">>]>>

\* What the lines of the text show as the time of each prayer:
\* prayer_times.get(prayer, "-"), prayer_times being {} when get_prayer_times
\* raised.
NoTime == <<"-">>

TimesShown(resp) ==
  [p \in PrayerSet |-> IF resp = LookupFailed THEN NoTime ELSE resp[p]]

\* user.get("city_name", "Bekasi")
city_name_of(d, user_id) ==
  Get(get_user(d, user_id)[str(user_id)], "city_name", "Bekasi")

\* The message of the tracker: the day in its heading, which is
\* datetime.now(TIMEZONE) when the text is built, the place, what the text
\* marks done, the times and the keyboard.
TrackerMessage(chat_id, kind, status, resp, city_name, t) ==
  [chat_id |-> chat_id, kind |-> kind, heading |-> t.day, city |-> city_name,
   items |-> build_tracker_text(status), times |-> TimesShown(resp),
   buttons |-> build_tracker_keyboard(status)]

\* What show_tracker leaves in prayer_data.json when it handles the callback
\* query cb ("" for the /solat command): it reads the status and renders it,
\* it neither changes an entry nor calls save_data.
TrackerFile(d, user_id, today, cb) == d

\* The reply of show_tracker, or the KeyError that escapes it when the status
\* read from the file does not hold exactly the five prayers.
TrackerReply(chat_id, kind, status, resp, city_name, t) ==
  IF TextRaises(status) \/ KeyboardRaises(status)
  THEN Raised(chat_id, "KeyError")
  ELSE TrackerMessage(chat_id, kind, status, resp, city_name, t)

\* show_tracker, lines 131-142: the /solat command, or a button of the
\* tracker (toggle_<prayer> or refresh).  The handler reads today =
\* date.today(), the date of the server, and the file, takes the status
\* under today, and is suspended at the await of get_prayer_times with that
\* status in hand; the callback data is never looked at.
show_tracker(chat_id, user_id, cb) ==
  /\ Idle
  /\ Readable
  /\ data' = TrackerFile(load_data, user_id, date_today(now), cb)
  /\ out' = {}
  /\ pending' = Awaiting("get_prayer_times", "show_tracker", chat_id, user_id,
                         [kind |-> IF cb = "" THEN "Tracker Solat"
                                   ELSE "Tracker Solat (edit)",
                          prayer_status |-> StatusOf(load_data, user_id,
                                                     date_today(now)),
                          city_name |-> city_name_of(load_data, user_id)])
  /\ UNCHANGED <<truncated, jobs, now, conv, user_data>>

\* show_tracker, lines 142-152: get_prayer_times has answered resp (a table,
\* or LookupFailed when it raised, which the handler takes as no times).  The
\* text and the keyboard are built from the status read before the await,
\* under the heading of the present day, and sent: a new message for the
\* command, an edit of the message for a button; or a KeyError escapes.
show_tracker_resume(resp) ==
  /\ At("get_prayer_times", "show_tracker")
  /\ out' = {TrackerReply(pending.chat_id, pending.locals.kind,
                          pending.locals.prayer_status, resp,
                          pending.locals.city_name, now)}
  /\ pending' = NoReply
  /\ UNCHANGED <<data, truncated, jobs, now, conv, user_data>>

\* /solat
solat(chat_id, user_id) == show_tracker(chat_id, user_id, "")

\* The button toggle_<prayer> of the tracker keyboard.
toggle(chat_id, user_id, prayer) == show_tracker(chat_id, user_id, prayer)

\* The button refresh of the tracker keyboard.
refresh(chat_id, user_id) == show_tracker(chat_id, user_id, "refresh")

\* prayer_status.items(): the pairs of the status in its own order, which is
\* the order of PRAYERS for an entry that get_prayer_status created.
items(status) == status

Keys(pairs) == [i \in 1..Len(pairs) |-> pairs[i][1]]

\* done = [p for p, v in prayer_status.items() if v]
RekapDone(status) == Keys(SelectSeq(items(status), LAMBDA kv : kv[2]))

\* Mutant: every prayer is listed as missed.
MissedAll(status) == Keys(items(status))

\* missed = [p for p, v in prayer_status.items() if not v]
RekapMissed(status) == Keys(SelectSeq(items(status), LAMBDA kv : ~kv[2]))

\* The closing line of the summary.
RekapClosing(done) ==
  IF Len(done) = Len(PRAYERS) THEN "lengkap"
  ELSE IF Len(done) >= 3 THEN "Semangat"
  ELSE "Yuk kejar"

RekapMessage(chat_id, status) ==
  [chat_id |-> chat_id, kind |-> "Rekap Solat",
   done |-> RekapDone(status), done_count |-> Len(RekapDone(status)),
   missed |-> RekapMissed(status), missed_count |-> Len(RekapMissed(status)),
   closing |-> RekapClosing(RekapDone(status))]

\* /rekap: the status under today = date.today() is read, created in memory
\* if absent, and not saved.
rekap(chat_id, user_id) ==
  /\ Idle
  /\ Readable
  /\ out' = {RekapMessage(chat_id, StatusOf(load_data, user_id, date_today(now)))}
  /\ UNCHANGED <<data, truncated, jobs, now, conv, user_data, pending>>

\* ------------------------------------------------------- selection flow
QPAGE == <<"q", "p", "a", "g", "e", "_">>
SURAH == <<"s", "u", "r", "a", "h", "_">>

\* f"qpage_{n}" and f"surah_{i}", the callback data of the buttons.
QPage(n) == QPAGE \o str(n)

SurahButton(i) == SURAH \o str(i)

\* Mutant: a page ends SURAH_PER_PAGE after its start, whatever the start.
PageEndUncapped(start) == start + SURAH_PER_PAGE

\* end = min(start + SURAH_PER_PAGE, 115)
PageEnd(start) == Min(start + SURAH_PER_PAGE, SurahStop)

total_pages == (LastSurah + SURAH_PER_PAGE - 1) \div SURAH_PER_PAGE

\* build_surah_keyboard(page) reads SURAH_NAMES[i] for every i of
\* range(start, end): a KeyError for a page below 0, whose range holds numbers
\* that are no surah.
SurahKeyError(page) ==
  \E i \in (page * SURAH_PER_PAGE + 1)..(PageEnd(page * SURAH_PER_PAGE + 1) - 1) :
    i \notin 1..LastSurah

\* build_surah_keyboard(page): the callback data of the surah buttons, in the
\* order of range(start, end), and of the navigation row (the label between
\* prev and next is the button noop); the last row is the button qcancel.
build_surah_keyboard(page) ==
  LET start == page * SURAH_PER_PAGE + 1
      end == PageEnd(start)
  IN [surahs |-> [i \in 1..(end - start) |-> SurahButton(start + i - 1)],
      nav |-> (IF page > 0 THEN <<QPage(page - 1)>> ELSE <<>>)
                \o <<<<"n", "o", "o", "p">>>>
                \o (IF end < SurahStop THEN <<QPage(page + 1)>> ELSE <<>>)]

\* The message of show_surah_page: "hal. {page+1}/{total_pages}" and the
\* keyboard of the page.
PageMessage(chat_id, page) ==
  [chat_id |-> chat_id, kind |-> "Pilih Surah", hal |-> page + 1,
   keyboard |-> build_surah_keyboard(page)]

\* What show_surah_page sends for the data cb, or the exception that escapes
\* it: ValueError when what follows qpage_ is no integer, KeyError when the
\* page has no keyboard.
PageReply(chat_id, page) ==
  IF ~page.ok THEN Raised(chat_id, "ValueError")
  ELSE IF SurahKeyError(page.val) THEN Raised(chat_id, "KeyError")
  ELSE PageMessage(chat_id, page.val)

\* show_surah_page: a button whose data matches ^qpage_, an entry point in
\* every state (allow_reentry).  When it raises, the conversation is as it
\* was.
show_surah_page(chat_id, user_id, cb) ==
  /\ Idle
  /\ StartsWith(cb, QPAGE)
  /\ out' = {PageReply(chat_id, int(replace(cb, QPAGE)))}
  /\ conv' = IF "raised" \in DOMAIN PageReply(chat_id, int(replace(cb, QPAGE)))
             THEN conv
             ELSE [conv EXCEPT ![<<chat_id, user_id>>] = CHOOSING]
  /\ UNCHANGED <<data, truncated, jobs, now, user_data, pending>>

\* surah_selected: a button whose data matches ^surah_, while choosing.  When
\* what follows surah_ is no integer, int() raises and nothing has changed.
\* Otherwise the surah is put in user_data, then the handler is suspended at
\* the edit_message_text of line 345 and returns WAITING_AYAT after it.
surah_selected(chat_id, user_id, cb) ==
  /\ Idle
  /\ conv[<<chat_id, user_id>>] = CHOOSING
  /\ StartsWith(cb, SURAH)
  /\ IF ~int(replace(cb, SURAH)).ok
     THEN /\ out' = {Raised(chat_id, "ValueError")}
          /\ UNCHANGED <<user_data, pending>>
     ELSE /\ user_data' = [user_data EXCEPT
                             ![user_id] = Put(@, "selected_surah",
                                              int(replace(cb, SURAH)).val)]
          /\ out' = {}
          /\ pending' = Suspended(
                          Message(chat_id, "Surah dipilih", <<>>,
                                  [surah |-> int(replace(cb, SURAH)).val,
                                   ayat |-> 0], 0),
                          <<chat_id, user_id>>, {WAITING_AYAT})
  /\ UNCHANGED <<data, truncated, jobs, now, conv>>

\* Mutant: the surah and the ayat are stored in each other's place.
LastReadSwapped(surah_num, ayat, t) ==
  [surah |-> ayat, ayat |-> surah_num, updated_at |-> t]

\* The record receive_ayat stores; updated_at is the clock at that moment.
LastRead(surah_num, ayat, t) ==
  [surah |-> surah_num, ayat |-> ayat, updated_at |-> t]

\* Mutant: only text that is no integer is rejected.
RejectedNoInt(ayat) == ~ayat.ok

\* receive_ayat, lines 356-362: int() raises ValueError, or the handler raises
\* it for an integer below 1.
Rejected(ayat) == ~ayat.ok \/ ayat.val < 1

\* receive_ayat: a text message that is no command, while waiting for the
\* ayat.  A rejected text and a missing surah are answered without a change
\* of state; a position is saved, then the handler is suspended at the
\* reply_text of line 381 and returns END after it.
receive_ayat(chat_id, user_id, text) ==
  /\ Idle
  /\ conv[<<chat_id, user_id>>] = WAITING_AYAT
  /\ LET ayat == int(strip(text))
         surah_num == Get(user_data[user_id], "selected_surah", 0)
     IN IF Rejected(ayat)
        THEN /\ out' = {Reply(chat_id, "Nomor ayat harus angka")}
             /\ UNCHANGED <<data, conv, pending>>
        ELSE IF ~Truthy(surah_num)
        THEN /\ out' = {Reply(chat_id, "Terjadi kesalahan")}
             /\ conv' = [conv EXCEPT ![<<chat_id, user_id>>] = END]
             /\ UNCHANGED <<data, pending>>
        ELSE /\ Readable
             /\ data' = SetQuran(load_data, user_id, "last_read",
                                 LastRead(surah_num, ayat.val, strftime(now)))
             /\ out' = {}
             /\ pending' = Suspended(Message(chat_id, "Tersimpan", <<>>,
                                             [surah |-> surah_num, ayat |-> ayat.val], 0),
                                     <<chat_id, user_id>>, {END})
             /\ conv' = conv
  /\ UNCHANGED <<truncated, jobs, now, user_data>>

\* batal for the command /batal.  The handler CommandHandler("batal", batal)
\* of line 521 stands before quran_conv in the same group, so it takes every
\* /batal: the value it returns is dropped and the fallback of quran_conv
\* never sees the command.
batal_command(chat_id, user_id) ==
  /\ Idle
  /\ out' = {Reply(chat_id, "Dibatalkan")}
  /\ UNCHANGED <<data, truncated, jobs, now, conv, user_data, pending>>

\* batal for the button qcancel, from the handlers of state 0 or from the
\* fallbacks: update.message is None for a callback query, so reply_text
\* raises AttributeError and no state is returned to the conversation.
batal_qcancel(chat_id, user_id) ==
  /\ Idle
  /\ conv[<<chat_id, user_id>>] # END
  /\ out' = {Raised(chat_id, "AttributeError")}
  /\ UNCHANGED <<data, truncated, jobs, now, conv, user_data, pending>>

\* ------------------------------------------------- location and schedule
\* Latitudes and longitudes of a location message; 0 is falsy in "if lat".
Coordinates == {0, 1}

\* What get_city_name returns: a place of the address, or "Lokasi kamu" when
\* the address names none or the request raised.
Cities == {"Depok", "Lokasi kamu"}

\* /start
start(chat_id) ==
  /\ Idle
  /\ out' = {Reply(chat_id, "Assalamu'alaikum")}
  /\ UNCHANGED <<data, truncated, jobs, now, conv, user_data, pending>>

\* /lokasi
ask_location(chat_id) ==
  /\ Idle
  /\ out' = {Reply(chat_id, "Kirim lokasi kamu")}
  /\ UNCHANGED <<data, truncated, jobs, now, conv, user_data, pending>>

\* user["lat"] = lat; user["lon"] = lon; user["city_name"] = city_name, on the
\* mapping d that load_data returned.
SetLocation(d, user_id, lat, lon, city_name) ==
  LET user == d[str(user_id)]
  IN Put(d, str(user_id),
         Put(Put(Put(user, "lat", lat), "lon", lon), "city_name", city_name))

\* handle_location, lines 167-171: a message that holds a location.  The
\* file is loaded and the handler is suspended at the await of get_city_name
\* with the mapping it loaded in hand.
handle_location(chat_id, user_id, lat, lon) ==
  /\ Idle
  /\ Readable
  /\ out' = {}
  /\ pending' = Awaiting("get_city_name", "handle_location", chat_id, user_id,
                         [data |-> get_user(load_data, user_id),
                          lat |-> lat, lon |-> lon])
  /\ UNCHANGED <<data, truncated, jobs, now, conv, user_data>>

\* handle_location, lines 171-180: get_city_name has answered.  The location
\* and the city are put in the mapping loaded before the await, which is
\* saved, and the handler is suspended at the await of its reply.
handle_location_resume(city_name) ==
  /\ At("get_city_name", "handle_location")
  /\ data' = SetLocation(pending.locals.data, pending.user_id,
                         pending.locals.lat, pending.locals.lon, city_name)
  /\ out' = {}
  /\ pending' = Suspended(Message(pending.chat_id, "Lokasi tersimpan",
                                  <<city_name>>, NoLast, 0),
                          <<pending.chat_id, pending.user_id>>, {})
  /\ UNCHANGED <<truncated, jobs, now, conv, user_data>>

\* /jadwal, lines 185-191: the file is loaded for the location and the city,
\* and the handler is suspended at the await of get_prayer_times.
jadwal(chat_id, user_id) ==
  /\ Idle
  /\ Readable
  /\ out' = {}
  /\ pending' = Awaiting("get_prayer_times", "jadwal", chat_id, user_id,
                         [city_name |-> city_name_of(load_data, user_id)])
  /\ UNCHANGED <<data, truncated, jobs, now, conv, user_data>>

\* The schedule of /jadwal: the city, the day (datetime.now(TIMEZONE) when
\* the text is built) and the time of each prayer.
JadwalMessage(chat_id, city_name, resp, t) ==
  [chat_id |-> chat_id, kind |-> "Jadwal Solat", city |-> city_name,
   heading |-> t.day, times |-> TimesShown(resp)]

\* /jadwal, lines 191-198: get_prayer_times has answered resp; the schedule is
\* sent, or "Gagal ambil jadwal" when the call raised.
jadwal_resume(resp) ==
  /\ At("get_prayer_times", "jadwal")
  /\ out' = {IF resp = LookupFailed
             THEN Reply(pending.chat_id, "Gagal ambil jadwal")
             ELSE JadwalMessage(pending.chat_id, pending.locals.city_name,
                                resp, now)}
  /\ pending' = NoReply
  /\ UNCHANGED <<data, truncated, jobs, now, conv, user_data>>

\* The message of /quran: the last position when the record holds one, the
\* target when it is not 0, the reminder time when there is one, and the
\* button qpage_0 that enters the selection flow.
QuranMessage(chat_id, quran_data) ==
  [chat_id |-> chat_id, kind |-> "Al-Quran Tracker",
   last |-> Get(quran_data, "last_read", NoLast),
   target |-> Get(quran_data, "daily_target", 0),
   reminder |-> Get(quran_data, "reminder", <<>>),
   button |-> QPage(0)]

\* /quran
quran(chat_id, user_id) ==
  /\ Idle
  /\ Readable
  /\ out' = {QuranMessage(chat_id, QuranOf(load_data, user_id))}
  /\ UNCHANGED <<data, truncated, jobs, now, conv, user_data, pending>>

\* ------------------------------------------------------- store failures
\* The handlers that call load_data, and those of them that call save_data.
StoreHandlers ==
  {"show_tracker", "handle_location", "jadwal", "rekap", "setup_reminders",
   "quran", "receive_ayat", "target_quran", "ingatkan_quran"}

SaveHandlers ==
  {"handle_location", "receive_ayat", "target_quran", "ingatkan_quran"}

\* receive_ayat reaches load_data and save_data when the conversation waits
\* for the ayat and a surah was chosen.
Committing(chat_id, user_id) ==
  /\ conv[<<chat_id, user_id>>] = WAITING_AYAT
  /\ Truthy(Get(user_data[user_id], "selected_surah", 0))

\* load_data raises in a handler: open is refused, or json.load cannot parse
\* a file cut short.  The call stands outside every try block and before any
\* change: the exception escapes the handler, no job is touched, no reply is
\* sent and the conversation is as it was.
load_fails(chat_id, user_id, handler, exc) ==
  /\ Idle
  /\ handler \in StoreHandlers
  /\ handler = "receive_ayat" => Committing(chat_id, user_id)
  /\ exc \in LoadOutcomes \ {""}
  /\ out' = {Raised(chat_id, exc)}
  /\ UNCHANGED <<data, truncated, jobs, now, conv, user_data, pending>>

\* save_data raises in a handler that has loaded the file.  When open(...,
\* "w") is refused the file is as it was; when json.dump raises, open has
\* emptied the file and what was written of the text is no JSON document, so
\* that every later load_data raises.  The exception escapes the handler
\* before the jobs are touched (line 448 stands before 450) and before the
\* reply; handle_location saves after its await of get_city_name.
save_fails(chat_id, user_id, handler, exc) ==
  /\ handler \in SaveHandlers
  /\ IF handler = "handle_location"
     THEN /\ At("get_city_name", "handle_location")
          /\ pending.chat_id = chat_id
          /\ pending.user_id = user_id
     ELSE Idle
  /\ handler = "receive_ayat" => Committing(chat_id, user_id)
  /\ Readable
  /\ exc = "OSError"
  /\ truncated' \in BOOLEAN
  /\ out' = {Raised(chat_id, exc)}
  /\ pending' = NoReply
  /\ UNCHANGED <<data, jobs, now, conv, user_data>>

\* A handler whose load_data or save_data raises.
store_fails(chat_id, user_id, handler, exc) ==
  \/ load_fails(chat_id, user_id, handler, exc)
  \/ save_fails(chat_id, user_id, handler, exc)

\* ------------------------------------------------------- specifications
\* The local time of the server is an hour behind TIMEZONE, the same, or an
\* hour ahead.
ServerShifts == {-1, 0, 1}

\* The clock when the bot starts, on a server s hours ahead of TIMEZONE.
Clock(s) == [day |-> 0, hour |-> 0, minute |-> 0, server |-> s]

\* The bot starts with no prayer_data.json, an empty job queue and no
\* conversation.
Init ==
  /\ data = EmptyDict
  /\ truncated = FALSE
  /\ jobs = EmptyBag
  /\ now \in {Clock(s) : s \in ServerShifts}
  /\ conv = [p \in Pairs |-> END]
  /\ user_data = [u \in Users |-> EmptyDict]
  /\ out = {}
  /\ pending = NoReply

Next ==
  \/ \E c \in Chats : start(c)
  \/ \E c \in Chats : ask_location(c)
  \/ \E p \in Pairs, lat \in Coordinates, lon \in Coordinates :
       handle_location(p[1], p[2], lat, lon)
  \/ \E city_name \in Cities : handle_location_resume(city_name)
  \/ \E p \in Pairs : jadwal(p[1], p[2])
  \/ \E resp \in DayTables \cup UniformTables \cup {LookupFailed} :
       jadwal_resume(resp)
  \/ \E p \in Pairs : quran(p[1], p[2])
  \/ \E p \in Pairs : setup_reminders(p[1], p[2])
  \/ \E p \in Pairs, resp \in DayTables \cup UniformTables \cup {LookupFailed} :
       setup_reminders_resume(p[1], p[2], resp)
  \/ \E p \in Pairs, a \in ReminderArgs : ingatkan_quran(p[1], p[2], <<a>>)
  \/ \E p \in Pairs : ingatkan_quran(p[1], p[2], <<>>)
  \/ \E p \in Pairs, a \in TargetArgs : target_quran(p[1], p[2], <<a>>)
  \/ \E p \in Pairs : target_quran(p[1], p[2], <<>>)
  \/ \E p \in Pairs : solat(p[1], p[2])
  \/ \E p \in Pairs, e \in PrayerSet : toggle(p[1], p[2], e)
  \/ \E p \in Pairs : refresh(p[1], p[2])
  \/ \E resp \in DayTables \cup UniformTables \cup {LookupFailed} :
       show_tracker_resume(resp)
  \/ \E p \in Pairs : rekap(p[1], p[2])
  \/ \E p \in Pairs, cb \in {QPage(0), QPage(-1), QPAGE \o Garbled} :
       show_surah_page(p[1], p[2], cb)
  \/ \E p \in Pairs, cb \in {SurahButton(n) : n \in Surahs} \cup {SURAH \o Garbled} :
       surah_selected(p[1], p[2], cb)
  \/ \E p \in Pairs, t \in AyatTexts : receive_ayat(p[1], p[2], t)
  \/ \E p \in Pairs : batal_command(p[1], p[2])
  \/ \E p \in Pairs : batal_qcancel(p[1], p[2])
  \/ \E p \in Pairs, h \in StoreHandlers, e \in StoreErrors :
       store_fails(p[1], p[2], h, e)
  \/ reply_text
  \/ Tick
  \/ Restart

Spec == Init /\ [][Next]_vars

\* The start on a server whose zone is TIMEZONE.  The specifications that
\* start here hold no action that reads date.today() but /ingatkan, where
\* the date is part of the request whose answer is an input of the action.
InitLocal == Init /\ now = Clock(0)

\* The prayer reminders of one day: /ingatkan and the clock.  No other
\* handler reads or writes the jobs named str(chat_id), and every one of them
\* has run when the day ends.
TickToday == Tick /\ now'.day = now.day

NextEvents ==
  \/ \E p \in Pairs : setup_reminders(p[1], p[2])
  \/ \E p \in Pairs, resp \in DayTables \cup {LookupFailed} :
       setup_reminders_resume(p[1], p[2], resp)
  \/ reply_text
  \/ TickToday

SpecEvents == InitLocal /\ [][NextEvents]_vars

\* The job queue: both kinds of reminder, the clock and the restart of the
\* process.
NextTimers ==
  \/ \E p \in Pairs : setup_reminders(p[1], p[2])
  \/ \E p \in Pairs, resp \in UniformTables \cup {LookupFailed} :
       setup_reminders_resume(p[1], p[2], resp)
  \/ \E p \in Pairs, a \in ReminderArgs : ingatkan_quran(p[1], p[2], <<a>>)
  \/ \E p \in Pairs : ingatkan_quran(p[1], p[2], <<>>)
  \/ reply_text
  \/ Tick
  \/ Restart

SpecTimers == InitLocal /\ [][NextTimers]_vars

\* The Quran reminder and what it reads: the daily target and the reading
\* position.  The bot starts on the file an earlier run left, which may hold
\* a position that the selection flow stored.
ReadingFiles ==
  {EmptyDict}
    \cup {SetQuran(EmptyDict, u, "last_read",
                   LastRead(n, v, [day |-> 0, hour |-> 0, minute |-> 0])) :
            u \in Users, n \in Surahs, v \in 1..MaxAyat}

InitReading ==
  /\ data \in ReadingFiles
  /\ truncated = FALSE
  /\ jobs = EmptyBag
  /\ now = Clock(0)
  /\ conv = [p \in Pairs |-> END]
  /\ user_data = [u \in Users |-> EmptyDict]
  /\ out = {}
  /\ pending = NoReply

NextReading ==
  \/ \E p \in Pairs, a \in ReminderArgs : ingatkan_quran(p[1], p[2], <<a>>)
  \/ \E p \in Pairs : ingatkan_quran(p[1], p[2], <<>>)
  \/ \E p \in Pairs, a \in TargetArgs : target_quran(p[1], p[2], <<a>>)
  \/ \E p \in Pairs : target_quran(p[1], p[2], <<>>)
  \/ reply_text
  \/ Tick

SpecReading == InitReading /\ [][NextReading]_vars

\* The selection flow and its two ways of cancelling.
NextFlow ==
  \/ \E p \in Pairs : show_surah_page(p[1], p[2], QPage(0))
  \/ \E p \in Pairs, n \in Surahs : surah_selected(p[1], p[2], SurahButton(n))
  \/ \E p \in Pairs, t \in AyatTexts : receive_ayat(p[1], p[2], t)
  \/ \E p \in Pairs : batal_command(p[1], p[2])
  \/ \E p \in Pairs : batal_qcancel(p[1], p[2])
  \/ reply_text
  \/ Tick
  \/ Restart

SpecFlow == InitLocal /\ [][NextFlow]_vars

\* The pages of the surah list.  The button qpage_0 is under the message of
\* /quran (line 308); every other button pressed is one that the keyboard
\* last shown in the chat offers.
Buttons(chat_id, row) ==
  UNION {{m.keyboard[row][i] : i \in 1..Len(m.keyboard[row])} :
           m \in {x \in out : "keyboard" \in DOMAIN x /\ x.chat_id = chat_id}}

NextPages ==
  \/ \E p \in Pairs : \E cb \in Buttons(p[1], "nav") \cup {QPage(0)} :
       show_surah_page(p[1], p[2], cb)
  \/ \E p \in Pairs : \E cb \in Buttons(p[1], "surahs") :
       surah_selected(p[1], p[2], cb)
  \/ reply_text

SpecPages == InitLocal /\ [][NextPages]_vars

\* The answers of get_prayer_times to the tracker: the call raised, or a table
\* with every prayer at the first instant of the clock.
TrackerTables == {LookupFailed, [p \in PrayerSet |-> HHMM(0, 0)]}

\* Requests that read or write prayer_data.json, with a store that may fail.
NextStore ==
  \/ \E p \in Pairs, a \in TargetArgs : target_quran(p[1], p[2], <<a>>)
  \/ \E p \in Pairs, lat \in Coordinates, lon \in Coordinates :
       handle_location(p[1], p[2], lat, lon)
  \/ \E city_name \in Cities : handle_location_resume(city_name)
  \/ \E p \in Pairs : solat(p[1], p[2])
  \/ \E resp \in TrackerTables : show_tracker_resume(resp)
  \/ \E p \in Pairs : rekap(p[1], p[2])
  \/ \E p \in Pairs, h \in StoreHandlers, e \in StoreErrors :
       store_fails(p[1], p[2], h, e)
  \/ reply_text
  \/ Tick

SpecStore == Init /\ [][NextStore]_vars

\* The reading reminder beside the other requests that change the job queue
\* or the file, each suspended at its reply while the scheduler runs its jobs.
NextLoop ==
  \/ \E p \in Pairs, a \in ReminderArgs : ingatkan_quran(p[1], p[2], <<a>>)
  \/ \E p \in Pairs : setup_reminders(p[1], p[2])
  \/ \E p \in Pairs, resp \in UniformTables \cup {LookupFailed} :
       setup_reminders_resume(p[1], p[2], resp)
  \/ \E p \in Pairs, a \in TargetArgs : target_quran(p[1], p[2], <<a>>)
  \/ reply_text
  \/ Tick

SpecLoop == InitLocal /\ [][NextLoop]_vars

\* The checklist.  prayer_data.json outlives the process: the bot may start
\* on a file that already holds the status of a day, with the five prayers
\* in the order in which get_prayer_status creates them.
StatusFiles ==
  {EmptyDict, Put(EmptyDict, str(1), EmptyDict)}
    \cup {Put(EmptyDict, str(u), Put(EmptyDict, "prayers", Put(EmptyDict, d, st))) :
            u \in Users, d \in Days,
            st \in {DayStatus(f) : f \in [PrayerSet -> BOOLEAN]}}

InitChecklist ==
  /\ data \in StatusFiles
  /\ truncated = FALSE
  /\ jobs = EmptyBag
  /\ now \in {Clock(s) : s \in ServerShifts}
  /\ conv = [p \in Pairs |-> END]
  /\ user_data = [u \in Users |-> EmptyDict]
  /\ out = {}
  /\ pending = NoReply

NextChecklist ==
  \/ \E p \in Pairs : solat(p[1], p[2])
  \/ \E p \in Pairs, e \in PrayerSet : toggle(p[1], p[2], e)
  \/ \E p \in Pairs : refresh(p[1], p[2])
  \/ \E resp \in TrackerTables : show_tracker_resume(resp)
  \/ \E p \in Pairs : rekap(p[1], p[2])
  \/ Tick

SpecChecklist == InitChecklist /\ [][NextChecklist]_vars

\* ---------------------------------------------------------- properties
\* The live one-shot timers of a chat for an event, and its live daily timers.
EventTimers(q, chat_id, prayer) ==
  {j \in BagToSet(q) : /\ j.callback = "send_prayer_reminder"
                       /\ j.chat_id = chat_id
                       /\ j.prayer = prayer}

ReadingTimers(q, chat_id) ==
  {j \in BagToSet(q) : j.callback = "send_quran_reminder" /\ j.chat_id = chat_id}

\* The number of live timers among the jobs S of the queue q.
RECURSIVE Copies(_, _)
Copies(q, S) ==
  IF S = {} THEN 0
  ELSE LET j == CHOOSE x \in S : TRUE IN q[j] + Copies(q, S \ {j})

MinuteOfDay(t) == 60 * t.hour + t.minute

\* C1: whatever /ingatkan and /ingatkan_quran requests and timer firings came
\* before, a chat has at most one live one-shot timer for each of the five
\* prayers and at most one live daily reading timer.
C1_AtMostOneTimer ==
  \A c \in Chats :
    /\ \A e \in PrayerSet : Copies(jobs, EventTimers(jobs, c, e)) <= 1
    /\ Copies(jobs, ReadingTimers(jobs, c)) <= 1

\* A chat holds all five prayer timers and a reading timer, and the last
\* request registered a timer again.
C1_Witness ==
  \E c \in Chats :
    /\ \A e \in PrayerSet : EventTimers(jobs, c, e) # {}
    /\ ReadingTimers(jobs, c) # {}
    /\ \E m \in out : m.chat_id = c /\ m.kind = "Pengingat baca Quran diset"

C2_Outcome(r, times, chat_id, t) ==
  /\ r.ok
  /\ \A e \in PrayerSet :
       /\ EventTimers(r.jobs, chat_id, e) # {}
            <=> MinuteOfDay(ParsedTime[times[e]]) > MinuteOfDay(t)
       /\ \A j \in EventTimers(r.jobs, chat_id, e) :
            /\ j.day = t.day
            /\ MinuteOfDay(j) = MinuteOfDay(ParsedTime[times[e]])
       /\ (\E i \in 1..Len(r.scheduled) : r.scheduled[i] = e)
            <=> EventTimers(r.jobs, chat_id, e) # {}
  /\ SetupReply(chat_id, r).kind
       \in {"Pengingat solat aktif", "Semua waktu solat sudah lewat"}

\* C2: /ingatkan, given five valid times, registers a one-shot timer for a
\* prayer exactly when the prayer's time today is strictly later than the
\* clock, at that time; the other prayers get no timer and are not named in
\* the reply.
C2_SkipPast ==
  \A p \in Pairs, times \in GoodTables :
    C2_Outcome(TrySetup(jobs, times, p[1], p[2], now), times, p[1], now)

\* /ingatkan has answered with a list that names some prayers and skips
\* others, and the chat's timers are the prayers named.
C2_Witness ==
  \E m \in out :
    /\ m.kind = "Pengingat solat aktif"
    /\ Len(m.items) < Len(PRAYERS)
    /\ \A e \in PrayerSet :
         (\E i \in 1..Len(m.items) : m.items[i] = e)
           <=> EventTimers(jobs, m.chat_id, e) # {}
    /\ \E e \in PrayerSet : \E j \in EventTimers(jobs, m.chat_id, e) :
         MinuteOfDay(j) > MinuteOfDay(now)

\* C3: when get_prayer_times fails, /ingatkan leaves the job queue as it was
\* and answers that the setup failed.
C3_LookupFailedKeepsTimers ==
  [][\A p \in Pairs :
       /\ setup_reminders(p[1], p[2]) => jobs' = jobs
       /\ setup_reminders_resume(p[1], p[2], LookupFailed)
            => /\ jobs' = jobs
               /\ out' = {Reply(p[1], "Gagal setup pengingat")}]_vars

\* /ingatkan has answered that the setup failed while the chat holds all five
\* prayer timers (a table with an entry that is no time leaves at most four).
C3_Witness ==
  \E c \in Chats :
    /\ out = {Reply(c, "Gagal setup pengingat")}
    /\ \A e \in PrayerSet : EventTimers(jobs, c, e) # {}

\* C4: when one of the five time strings is no time, /ingatkan registers none
\* of the five timers, wherever the string stands in the table.
C4_NoPartialRegistration ==
  [][\A p \in Pairs, times \in BadTables :
       setup_reminders_resume(p[1], p[2], times)
         => \A e \in PrayerSet : EventTimers(jobs', p[1], e) = {}]_vars

\* C5: the message of a daily reading reminder shows the reading position and
\* the daily target that the record of the user who set the reminder holds
\* when it fires, in whichever chat the user set it.
C5_ReminderReadsUserRecord ==
  \A m \in out :
    m.kind = "Waktunya baca Al-Quran"
      => \A j \in ReadingTimers(jobs, m.chat_id) :
           /\ m.surah = Get(QuranOf(data, j.user), "last_read", NoLast).surah
           /\ m.ayat = Get(QuranOf(data, j.user), "last_read", NoLast).ayat
           /\ m.target = Get(QuranOf(data, j.user), "daily_target", 0)

\* C6: when the process has restarted, every user whose record holds a
\* reminder time has a daily reading timer at that time.
C6_RestartReregisters ==
  [][Restart =>
       \A u \in Users :
         "reminder" \in DOMAIN QuranOf(data', u)
           => \E c \in Chats : \E j \in ReadingTimers(jobs', c) :
                HHMM(j.hour, j.minute) = QuranOf(data', u)["reminder"]]_vars

\* C7: a press of the button toggle_<prayer> flips that prayer in the user's
\* status of the day and leaves the other four as they were.
C7_ToggleFlips ==
  [][\A p \in Pairs, e \in PrayerSet :
       toggle(p[1], p[2], e)
         => \A x \in PrayerSet :
              item(StatusOf(data', p[2], date_today(now)), x)
                = IF x = e THEN ~item(StatusOf(data, p[2], date_today(now)), x)
                  ELSE item(StatusOf(data, p[2], date_today(now)), x)]_vars

HasStatus(d, user_id, today) ==
  /\ str(user_id) \in DOMAIN d
  /\ "prayers" \in DOMAIN d[str(user_id)]
  /\ today \in DOMAIN d[str(user_id)]["prayers"]

C9_Outcome(m1, user_id, today) ==
  LET s1 == m1[str(user_id)]["prayers"][today]
  IN /\ keys(s1) = PrayerSet
     /\ Len(s1) = Len(PRAYERS)
     /\ IF HasStatus(data, user_id, today)
        THEN s1 = data[str(user_id)]["prayers"][today]
        ELSE s1 = AllFalse
     /\ get_prayer_status(m1, user_id, today) = m1
     /\ \A k \in DOMAIN data : k # str(user_id) => m1[k] = data[k]

\* C9: the first get_prayer_status for a user and a date creates the status
\* with the five prayers false; a call on a mapping that holds the status
\* returns it as it is and changes nothing.
C9_GetOrInit ==
  \A u \in Users, d \in Dates : C9_Outcome(get_prayer_status(data, u, d), u, d)

\* The tracker has shown a status that the file held before, with a prayer
\* done and a prayer not done.
C9_Witness ==
  \E m \in out :
    /\ m.kind = "Tracker Solat"
    /\ m.items # <<>>
    /\ Len(m.items) < Len(PRAYERS)
    /\ \E u \in Users : HasStatus(data, u, date_today(now))

\* C10: picking a surah while choosing stores it as the chosen surah and,
\* the choice being shown, waits for the ayat; a positive integer typed then
\* is stored with the chosen surah as the user's last position and, the
\* position being reported, the conversation ends.
C10_SelectionCommits ==
  [][/\ \A p \in Pairs :
          /\ \A n \in Surahs :
               surah_selected(p[1], p[2], SurahButton(n))
                 => /\ conv[p] = CHOOSING
                    /\ user_data'[p[2]]["selected_surah"] = n
                    /\ pending'.pair = p
                    /\ pending'.returns = {WAITING_AYAT}
          /\ \A t \in AyatTexts :
               (receive_ayat(p[1], p[2], t) /\ int(t).ok /\ int(t).val >= 1)
                 => /\ pending'.pair = p
                    /\ pending'.returns = {END}
                    /\ LET last == QuranOf(data', p[2])["last_read"]
                       IN /\ last.surah = user_data[p[2]]["selected_surah"]
                          /\ last.ayat = int(t).val
     /\ (reply_text /\ pending.returns # {})
          => conv'[pending.pair] \in pending.returns]_vars

\* A conversation has ended with the position stored and reported.
C10_Witness ==
  \E p \in Pairs, n \in Surahs, v \in 1..MaxAyat :
    /\ conv[p] = END
    /\ out = {Message(p[1], "Tersimpan", <<>>, [surah |-> n, ayat |-> v], 0)}
    /\ "last_read" \in DOMAIN QuranOf(data, p[2])
    /\ QuranOf(data, p[2])["last_read"].surah = n
    /\ QuranOf(data, p[2])["last_read"].ayat = v

\* C11: while the bot waits for the ayat, a text that is no integer, or an
\* integer below 1, leaves the conversation waiting, the chosen surah in place
\* and prayer_data.json as it was, and is answered with the request to type a
\* number.  The conversation and the chosen surah being those of before, a
\* valid integer typed afterwards is stored with that surah (C10).
C11_RejectKeepsPending ==
  [][\A p \in Pairs, t \in AyatTexts :
       (receive_ayat(p[1], p[2], t) /\ (~int(t).ok \/ int(t).val < 1))
         => /\ conv'[p] = WAITING_AYAT
            /\ user_data' = user_data
            /\ data' = data
            /\ out' = {Reply(p[1], "Nomor ayat harus angka")}]_vars

\* A text has been rejected while a surah is chosen, the conversation still
\* waits and nothing is stored.
C11_Witness ==
  \E p \in Pairs :
    /\ out = {Reply(p[1], "Nomor ayat harus angka")}
    /\ conv[p] = WAITING_AYAT
    /\ "selected_surah" \in DOMAIN user_data[p[2]]
    /\ "last_read" \notin DOMAIN QuranOf(data, p[2])

\* C12: the command /batal sent while the bot waits for the ayat ends the
\* conversation, so that a number typed next stores nothing.
C12_BatalEndsWaiting ==
  [][\A p \in Pairs :
       (batal_command(p[1], p[2]) /\ conv[p] = WAITING_AYAT)
         => /\ conv'[p] = END
            /\ \A t \in AyatTexts : ~ENABLED receive_ayat(p[1], p[2], t)]_vars

\* C13: the button qcancel pressed while a surah is being chosen ends the
\* conversation, and its handler raises nothing.
C13_QcancelEndsChoosing ==
  [][\A p \in Pairs :
       (batal_qcancel(p[1], p[2]) /\ conv[p] = CHOOSING)
         => /\ conv'[p] = END
            /\ \A m \in out' : "raised" \notin DOMAIN m]_vars

\* C14: when receive_ayat has stored the position and ended the conversation,
\* no chosen surah is left in the user's user_data.
C14_SessionDiscarded ==
  [][/\ \A p \in Pairs, t \in AyatTexts :
          (receive_ayat(p[1], p[2], t) /\ conv'[p] = END)
            => "selected_surah" \notin DOMAIN user_data'[p[2]]
     /\ (reply_text /\ pending.reply.kind = "Tersimpan")
          => "selected_surah" \notin DOMAIN user_data'[pending.pair[2]]]_vars

\* C15: for every page p of 0..11, build_surah_keyboard(p) offers the surahs
\* 10p+1 .. min(10p+10, 114) in that order (four of them on page 11), a prev
\* button, to page p-1, exactly when p > 0 and a next button, to page p+1,
\* exactly when p < 11; every page reached from page 0 by the buttons offered
\* is one of 0..11.
C15_Pages ==
  /\ \A p \in 0..11 :
       LET k == build_surah_keyboard(p)
           last == IF 10 * p + 10 < 114 THEN 10 * p + 10 ELSE 114
           qpages == {k.nav[i] : i \in 1..Len(k.nav)} \ {<<"n", "o", "o", "p">>}
       IN /\ Len(k.surahs) = last - 10 * p
          /\ \A i \in 1..Len(k.surahs) :
               /\ StartsWith(k.surahs[i], SURAH)
               /\ int(replace(k.surahs[i], SURAH)) = [ok |-> TRUE, val |-> 10 * p + i]
          /\ qpages = (IF p > 0 THEN {QPage(p - 1)} ELSE {})
                        \cup (IF p < 11 THEN {QPage(p + 1)} ELSE {})
  /\ \A m \in out :
       "keyboard" \in DOMAIN m
         => \E p \in 0..11 :
              m.hal = p + 1 /\ m.keyboard = build_surah_keyboard(p)

\* The last page is shown: four surahs, the last being surah 114, a prev
\* button and no next button.
C15_Witness ==
  \E m \in out :
    /\ "keyboard" \in DOMAIN m
    /\ m.hal = 12
    /\ Len(m.keyboard.surahs) = 4
    /\ m.keyboard.surahs[4] = SurahButton(114)
    /\ m.keyboard.nav = <<QPage(10), <<"n", "o", "o", "p">>>>

\* The indices in PRAYERS of the names of a list increase along the list.
Canonical(names) ==
  \A i, j \in 1..Len(names) : i < j => Index(names[i]) < Index(names[j])

\* C16: for every status, the summary of /rekap counts as done the prayers
\* that are true, its done and missed lists split the five prayers between
\* them, and both lists are in the order Subuh, Dzuhur, Ashar, Maghrib, Isya;
\* the summary sent is that of the user's status under the date of the day
\* that the request reads.
C16_Rekap ==
  /\ \A st \in [PrayerSet -> BOOLEAN] :
       LET m == RekapMessage(0, DayStatus(st))
           D == {m.done[i] : i \in 1..Len(m.done)}
           M == {m.missed[i] : i \in 1..Len(m.missed)}
       IN /\ D = {e \in PrayerSet : st[e]}
          /\ M = PrayerSet \ D
          /\ m.done_count = Cardinality(D)
          /\ m.done_count + m.missed_count = 5
          /\ Canonical(m.done) /\ Canonical(m.missed)
  /\ \A m \in out :
       "done" \in DOMAIN m
         => \E u \in Users :
              m = RekapMessage(m.chat_id, StatusOf(data, u, date_today(now)))

\* /rekap has answered with prayers done and prayers missed.
C16_Witness ==
  \E m \in out :
    /\ "done" \in DOMAIN m
    /\ m.done_count >= 2
    /\ m.missed_count >= 2

\* C17: when load_data or save_data fails in a handler, the user who sent the
\* request is answered that the request failed and may be tried again later.
C17_StoreFailureSurfaced ==
  [][\A p \in Pairs, h \in StoreHandlers, e \in StoreErrors :
       store_fails(p[1], p[2], h, e)
         => \E m \in out' : /\ m.chat_id = p[1]
                             /\ "raised" \notin DOMAIN m]_vars

\* C19: the daily target stored in a user's record is never negative.
C19_TargetNonNegative ==
  \A u \in Users :
    "daily_target" \in DOMAIN QuranOf(data, u)
      => QuranOf(data, u)["daily_target"] >= 0

\* C18: a chat that has one live daily reading timer has exactly one after
\* every step of the event loop, be it a segment of a handler between two
\* awaits or the run of a job, and no chat ever has two: no state, the ones
\* in which /ingatkan_quran is suspended included, shows the chat between the
\* cancellation and the registration.
C18_RescheduleAtomic ==
  [][\A c \in Chats :
       /\ Copies(jobs, ReadingTimers(jobs, c)) <= 1
       /\ Copies(jobs', ReadingTimers(jobs', c)) <= 1
       /\ Copies(jobs, ReadingTimers(jobs, c)) = 1
            => Copies(jobs', ReadingTimers(jobs', c)) = 1]_vars

\* /ingatkan_quran has registered the chat's reading timer and is suspended
\* at its reply, and the job of that chat has run in the meantime.
C18_Witness ==
  /\ "reply" \in DOMAIN pending
  /\ pending.reply.kind = "Pengingat baca Quran diset"
  /\ \E m \in out :
       m.kind = "Waktunya baca Al-Quran" /\ m.chat_id = pending.reply.chat_id
  /\ \E j \in ReadingTimers(jobs, pending.reply.chat_id) :
       <<HHMM(j.hour, j.minute)>> = pending.reply.items

\* The jobs that a request of the given kind in the chat may cancel or
\* register: the chat's own jobs with that callback.
Own(j, chat_id, callback) == j.chat_id = chat_id /\ j.callback = callback

Untouched(chat_id, callback) ==
  \A j \in BagToSet(jobs) \cup BagToSet(jobs') :
    ~Own(j, chat_id, callback) => CopiesIn(j, jobs') = CopiesIn(j, jobs)

\* C20: /ingatkan in a chat changes no job but the chat's own prayer timers,
\* whether it succeeds or fails; /ingatkan_quran in a chat changes no job but
\* the chat's own reading timer.
C20_Independent ==
  [][\A p \in Pairs :
       /\ setup_reminders(p[1], p[2]) => jobs' = jobs
       /\ \A resp \in UniformTables \cup {LookupFailed} :
            setup_reminders_resume(p[1], p[2], resp)
              => Untouched(p[1], "send_prayer_reminder")
       /\ \A a \in ReminderArgs :
            ingatkan_quran(p[1], p[2], <<a>>)
              => Untouched(p[1], "send_quran_reminder")
       /\ ingatkan_quran(p[1], p[2], <<>>)
            => Untouched(p[1], "send_quran_reminder")]_vars

\* /ingatkan has registered the prayer timers of a chat that holds a reading
\* timer, while the other chat holds prayer timers and a reading timer too.
C20_Witness ==
  \E c \in Chats, d \in Chats :
    /\ c # d
    /\ \E m \in out : m.chat_id = c /\ m.kind = "Pengingat solat aktif"
    /\ ReadingTimers(jobs, c) # {}
    /\ ReadingTimers(jobs, d) # {}
    /\ \E e \in PrayerSet : EventTimers(jobs, c, e) # {}
    /\ \E e \in PrayerSet : EventTimers(jobs, d, e) # {}

\* C21: while a conversation of a user waits for the ayat in one chat, a
\* surah picked by the same user in another chat leaves in place the surah
\* that the waiting conversation will store, which is the one picked in it.
C21_SessionsApart ==
  [][\A p \in Pairs, q \in Pairs, n \in Surahs :
       (/\ p[1] # q[1]
        /\ p[2] = q[2]
        /\ conv[p] = WAITING_AYAT
        /\ surah_selected(q[1], q[2], SurahButton(n)))
         => Get(user_data'[p[2]], "selected_surah", 0)
              = Get(user_data[p[2]], "selected_surah", 0)]_vars

\* C22: every live daily reading timer fires at the reminder time that the
\* record of the user who registered it holds.
C22_TimerAtStoredTime ==
  \A c \in Chats : \A j \in ReadingTimers(jobs, c) :
    /\ "reminder" \in DOMAIN QuranOf(data, j.user)
    /\ QuranOf(data, j.user)["reminder"] = HHMM(j.hour, j.minute)
====
